---- MODULE Spec2Model ----
(***************************************************************************)
(* Student Expense Manager (src/expense_manager.py): a menu loop over two  *)
(* SQLite relations, expenses and budget.  Each menu handler is one        *)
(* action.  Text that the code parses or formats (dates, month keys) is a  *)
(* sequence of one-character strings; amounts are whole numbers of the     *)
(* currency unit plus the float NaN; an id typed at the delete prompt is   *)
(* a small integer, an integer outside the signed 64-bit range, or text    *)
(* that is no integer.                                                     *)
(***************************************************************************)
EXTENDS Integers, Sequences, FiniteSets

VARIABLES expenses, seq, budget, now, pc, openConns, lastOp, assigned, lastSet

vars == <<expenses, seq, budget, now, pc, openConns, lastOp, assigned, lastSet>>

\* Cap on the AUTOINCREMENT counter of the expenses relation.
MaxSeq == 2

----------------------------------------------------------------------------
\* Text

DigitChars == <<"0", "1", "2", "3", "4", "5", "6", "7", "8", "9">>

IsDigit(c) == \E i \in 1..Len(DigitChars) : DigitChars[i] = c

DigitVal(c) == (CHOOSE i \in 1..Len(DigitChars) : DigitChars[i] = c) - 1

\* The characters of the modelled texts in code-point order (space, '-', digits).
Alphabet == <<" ", "-">> \o DigitChars

CharOrd(c) == CHOOSE i \in 1..Len(Alphabet) : Alphabet[i] = c

RECURSIVE TextLess(_, _)
\* Binary (memcmp) order of two texts.
TextLess(a, b) ==
  IF a = <<>> THEN b # <<>>
  ELSE IF b = <<>> THEN FALSE
  ELSE IF Head(a) # Head(b) THEN CharOrd(Head(a)) < CharOrd(Head(b))
  ELSE TextLess(Tail(a), Tail(b))

RECURSIVE LStrip(_)
LStrip(s) == IF s # <<>> /\ Head(s) = " " THEN LStrip(Tail(s)) ELSE s

RECURSIVE RStrip(_)
RStrip(s) ==
  IF s # <<>> /\ s[Len(s)] = " " THEN RStrip(SubSeq(s, 1, Len(s) - 1)) ELSE s

\* str.strip()
Strip(s) == RStrip(LStrip(s))

\* "%02d"
Pad2(n) == <<DigitChars[((n \div 10) % 10) + 1], DigitChars[(n % 10) + 1]>>

\* "%04d"
Pad4(n) == Pad2(n \div 100) \o Pad2(n % 100)

\* datetime.strftime("%Y-%m")
FormatYm(t) == Pad4(t.y) \o <<"-">> \o Pad2(t.m)

\* datetime.strftime("%Y-%m-%d")
FormatYmd(t) == FormatYm(t) \o <<"-">> \o Pad2(t.d)

\* The first 7 characters of a text.
Prefix7(s) == SubSeq(s, 1, IF Len(s) < 7 THEN Len(s) ELSE 7)

----------------------------------------------------------------------------
\* The clock: the dates datetime.now() returns, in order.

Calendar == << [y |-> 2025, m |-> 11, d |-> 30], [y |-> 2025, m |-> 12, d |-> 5] >>

Today == Calendar[now]

get_current_month_key == FormatYm(Today)

----------------------------------------------------------------------------
\* Inputs typed at the prompts

Num(n) == [k |-> "num", v |-> n]
NanText == [k |-> "nan", v |-> 0]
Junk == [k |-> "junk", v |-> 0]

Date_Dec05 == <<"2", "0", "2", "5", "-", "1", "2", "-", "0", "5">>
Date_Dec05_Spaced == <<" ">> \o Date_Dec05 \o <<" ">>
Date_Dec5 == <<"2", "0", "2", "5", "-", "1", "2", "-", "5">>
Date_Nov30 == <<"2", "0", "2", "5", "-", "1", "1", "-", "3", "0">>

Form(d, c, a, n) == [date |-> d, category |-> c, amount |-> a, note |-> n]

\* What is typed at the four prompts of add_expense; amount holds the lines
\* typed up to the first one input_float accepts.  No date carries a time
\* part and none is a bare number, 'now' or a time of day, so SQLite reads
\* each as YYYY-MM-DD or not as a date at all.
ExpenseForms ==
  { Form(<<>>, "Food", <<Num(5)>>, "lunch"),
    Form(Date_Dec05, "Food", <<Num(10)>>, ""),
    Form(Date_Dec05_Spaced, "Travel", <<Num(-3), Num(5)>>, ""),
    Form(Date_Dec05, "Travel", <<Num(10)>>, "lunch"),
    Form(Date_Dec5, "Food", <<Junk, Num(10)>>, "lunch"),
    Form(Date_Nov30, "Travel", <<Num(10)>>, "lunch"),
    Form(Date_Dec05, "Food", <<NanText>>, "") }

\* Lines typed at the budget prompt, up to the first one input_float accepts.
BudgetInputs ==
  { <<Num(5)>>, <<Junk, Num(10)>>, <<Num(-3), Num(5)>>, <<Junk, Num(-3), NanText>> }

IntText(n) == [k |-> "int", v |-> n]
\* An integer literal whose value is outside -2^63 .. 2^63-1.
HugeIntText == [k |-> "huge", v |-> 0]
NotIntText == [k |-> "junk", v |-> 0]

\* Lines typed at the delete prompt.
IdInputs == {IntText(i) : i \in 0..MaxSeq} \cup {HugeIntText, NotIntText}

MenuChoices == {"0", "1", "2", "3", "4", "5", "6", "7", ""}

----------------------------------------------------------------------------
\* Python and SQLite values

\* float(text): ValueError, NaN or a finite number (the infinities are not
\* among the texts typed).
FloatParse(tok) ==
  [err |-> tok.k = "junk", nan |-> tok.k = "nan", v |-> IF tok.k = "num" THEN tok.v ELSE 0]

\* value < 0 on floats: false for NaN.
FloatLt0(x) == ~x.nan /\ x.v < 0

RECURSIVE input_float(_)
\* The loop of input_float over the lines typed; absent while it still waits.
input_float(toks) ==
  IF toks = <<>> THEN [absent |-> TRUE, nan |-> FALSE, v |-> 0]
  ELSE LET p == FloatParse(Head(toks))
       IN IF p.err THEN input_float(Tail(toks))
          ELSE IF FloatLt0(p) THEN input_float(Tail(toks))
          ELSE [absent |-> FALSE, nan |-> p.nan, v |-> p.v]

\* Binding a Python float to a statement parameter: NaN is bound as NULL.
SqlBindFloat(x) == [null |-> x.nan, v |-> IF x.nan THEN 0 ELSE x.v]

\* int(text) followed by binding to a statement parameter.
IntParse(tok) ==
  [err |-> tok.k = "junk", overflow |-> tok.k = "huge", v |-> IF tok.k = "int" THEN tok.v ELSE 0]

\* SQLite strftime('%Y-%m', date) for a text that is YYYY-MM-DD or no date:
\* four digits, '-', two digits in 1..12, '-', two digits in 1..31, end.
StrftimeYm(s) ==
  LET wellFormed ==
        /\ Len(s) = 10
        /\ \A i \in {1, 2, 3, 4, 6, 7, 9, 10} : IsDigit(s[i])
        /\ s[5] = "-" /\ s[8] = "-"
      Y == DigitVal(s[1]) * 1000 + DigitVal(s[2]) * 100 + DigitVal(s[3]) * 10 + DigitVal(s[4])
      M == DigitVal(s[6]) * 10 + DigitVal(s[7])
      D == DigitVal(s[9]) * 10 + DigitVal(s[10])
  IN IF wellFormed /\ M \in 1..12 /\ D \in 1..31
     THEN [null |-> FALSE, v |-> Pad4(Y) \o <<"-">> \o Pad2(M)]
     ELSE [null |-> TRUE, v |-> <<>>]

\* WHERE strftime('%Y-%m', date) = ? : NULL equals nothing.
InMonth(row, key) == LET ym == StrftimeYm(row.date) IN ~ym.null /\ ym.v = key

----------------------------------------------------------------------------
\* The two relations.  expenses is kept in rowid order; seq is the row of
\* sqlite_sequence that AUTOINCREMENT maintains for it.

Max(a, b) == IF a < b THEN b ELSE a

RECURSIVE MaxRowid(_)
MaxRowid(rows) == IF rows = <<>> THEN 0 ELSE Max(Head(rows).id, MaxRowid(Tail(rows)))

\* The rowid of a table declared without AUTOINCREMENT: one past the largest
\* rowid now in the table.
NextRowid_MaxPlusOne(s, rows) == MaxRowid(rows) + 1

\* The rowid an INSERT without id gets in an AUTOINCREMENT table.
NextRowid(s, rows) == Max(s, MaxRowid(rows)) + 1

\* INSERT OR REPLACE under a uniqueness rule on (date, category).
InsertExpense_UniqueDateCategory(rows, id, d, c, a, n) ==
  Append(SelectSeq(rows, LAMBDA r : ~(r.date = d /\ r.category = c)),
         [id |-> id, date |-> d, category |-> c, amount |-> a, note |-> n])

\* INSERT INTO expenses (date, category, amount, note) VALUES (?, ?, ?, ?)
InsertExpense(rows, id, d, c, a, n) ==
  Append(rows, [id |-> id, date |-> d, category |-> c, amount |-> a, note |-> n])

\* DELETE FROM expenses WHERE id = ?
DeleteById(rows, id) == SelectSeq(rows, LAMBDA r : r.id # id)

\* SELECT ... FROM expenses ORDER BY date: the rows in any order that is
\* ascending in date (the order of equal dates is not specified).
Listings(rows) ==
  LET n == Len(rows)
      perms == {f \in [1..n -> 1..n] : \A i, j \in 1..n : i # j => f[i] # f[j]}
      sorted(f) == \A i \in 1..n - 1 : ~TextLess(rows[f[i + 1]].date, rows[f[i]].date)
  IN {[i \in 1..n |-> rows[f[i]]] : f \in {g \in perms : sorted(g)}}

\* WHERE strftime('%Y-%m', date) = ?
SelectMonth(rows, key) == SelectSeq(rows, LAMBDA r : InMonth(r, key))

RECURSIVE AddUp(_)
AddUp(rows) == IF rows = <<>> THEN 0 ELSE Head(rows).amount + AddUp(Tail(rows))

\* SELECT SUM(amount): NULL over no rows.
SqlSum(rows) == [null |-> rows = <<>>, v |-> AddUp(rows)]

RECURSIVE GroupSum(_, _)
\* SELECT category, SUM(amount) ... GROUP BY category, as a mapping.
GroupSum(rows, acc) ==
  IF rows = <<>> THEN acc
  ELSE LET r == Head(rows)
           old == IF r.category \in DOMAIN acc THEN acc[r.category] ELSE 0
       IN GroupSum(Tail(rows),
                   [c \in DOMAIN acc \cup {r.category} |->
                      IF c = r.category THEN old + r.amount ELSE acc[c]])

\* A plain INSERT into a budget relation that has no key.
UpsertBudget_PlainInsert(rows, key, amt) == Append(rows, [month |-> key, amount |-> amt])

\* INSERT INTO budget ... ON CONFLICT(month) DO UPDATE SET amount = excluded.amount
UpsertBudget(rows, key, amt) ==
  IF \E i \in 1..Len(rows) : rows[i].month = key
  THEN [i \in 1..Len(rows) |->
          IF rows[i].month = key THEN [month |-> key, amount |-> amt] ELSE rows[i]]
  ELSE Append(rows, [month |-> key, amount |-> amt])

\* SELECT amount FROM budget WHERE month = ? ; fetchone
GetBudget(rows, key) ==
  LET hit == SelectSeq(rows, LAMBDA r : r.month = key)
  IN [none |-> hit = <<>>, v |-> IF hit = <<>> THEN 0 ELSE Head(hit).amount]

\* The judgement with 'remaining > 0' for the within-budget test.
Evaluate_StrictlyWithin(total_expense, budget_amount) ==
  IF budget_amount.none THEN [status |-> "Unset", value |-> 0]
  ELSE LET remaining == budget_amount.v - total_expense
       IN IF remaining > 0 THEN [status |-> "WithinBudget", value |-> remaining]
          ELSE [status |-> "Exceeded", value |-> -remaining]

\* The judgement view_month_summary prints.
Evaluate(total_expense, budget_amount) ==
  IF budget_amount.none THEN [status |-> "Unset", value |-> 0]
  ELSE LET remaining == budget_amount.v - total_expense
       IN IF remaining >= 0 THEN [status |-> "WithinBudget", value |-> remaining]
          ELSE [status |-> "Exceeded", value |-> -remaining]

----------------------------------------------------------------------------
\* The program

Op(op, ok, in, out) == [op |-> op, ok |-> ok, in |-> in, out |-> out]

None == <<>>

Init ==
  /\ expenses = <<>>
  /\ seq = 0
  /\ budget = <<>>
  /\ now = 1
  /\ pc = "menu"
  /\ openConns = 0
  /\ lastOp = Op("init_db", TRUE, None, None)
  /\ assigned = <<>>
  /\ lastSet = <<>>

\* A statement raised: the exception leaves the handler and main_menu with the
\* connection still open, and the uncommitted statement is lost.
Raise(op, in) ==
  /\ pc' = "crashed"
  /\ openConns' = openConns + 1
  /\ lastOp' = Op(op, FALSE, in, None)
  /\ UNCHANGED <<expenses, seq, budget, now, assigned, lastSet>>

add_expense ==
  /\ pc = "menu"
  /\ \E form \in ExpenseForms :
       LET date_str == IF Strip(form.date) = <<>> THEN FormatYmd(Today) ELSE Strip(form.date)
           category == form.category
           amount == input_float(form.amount)
           note == form.note
           bound == SqlBindFloat(amount)
           id == NextRowid(seq, expenses)
           in == [date |-> date_str, category |-> category, amount |-> amount, note |-> note]
       IN /\ ~amount.absent
          /\ IF bound.null
             THEN Raise("add_expense", in)
             ELSE /\ id <= MaxSeq
                  /\ expenses' = InsertExpense(expenses, id, date_str, category, bound.v, note)
                  /\ seq' = id
                  /\ assigned' = Append(assigned, id)
                  /\ lastOp' = Op("add_expense", TRUE, in, id)
                  /\ UNCHANGED <<budget, now, pc, openConns, lastSet>>

set_monthly_budget ==
  /\ pc = "menu"
  /\ \E toks \in BudgetInputs :
       LET month_key == get_current_month_key
           amount == input_float(toks)
           bound == SqlBindFloat(amount)
           in == [month |-> month_key, amount |-> amount]
       IN /\ ~amount.absent
          /\ IF bound.null
             THEN Raise("set_monthly_budget", in)
             ELSE /\ budget' = UpsertBudget(budget, month_key, bound.v)
                  /\ lastSet' = [k \in DOMAIN lastSet \cup {month_key} |->
                                   IF k = month_key THEN bound.v ELSE lastSet[k]]
                  /\ lastOp' = Op("set_monthly_budget", TRUE, in,
                                  [conflict |-> ~GetBudget(budget, month_key).none])
                  /\ UNCHANGED <<expenses, seq, now, pc, openConns, assigned>>

view_all_expenses ==
  /\ pc = "menu"
  /\ \E rows \in Listings(expenses) :
       lastOp' = Op("view_all_expenses", TRUE, None, rows)
  /\ UNCHANGED <<expenses, seq, budget, now, pc, openConns, assigned, lastSet>>

view_month_summary ==
  /\ pc = "menu"
  /\ LET month_key == get_current_month_key
         sum == SqlSum(SelectMonth(expenses, month_key))
         total_expense == IF sum.null THEN 0 ELSE sum.v
         budget_amount == GetBudget(budget, month_key)
     IN lastOp' = Op("view_month_summary", TRUE, month_key,
                     [total |-> total_expense, budget |-> budget_amount,
                      judgement |-> Evaluate(total_expense, budget_amount)])
  /\ UNCHANGED <<expenses, seq, budget, now, pc, openConns, assigned, lastSet>>

view_category_wise_summary ==
  /\ pc = "menu"
  /\ LET month_key == get_current_month_key
     IN lastOp' = Op("view_category_wise_summary", TRUE, month_key,
                     GroupSum(SelectMonth(expenses, month_key), <<>>))
  /\ UNCHANGED <<expenses, seq, budget, now, pc, openConns, assigned, lastSet>>

\* A delete that also drops the budget rows.
delete_expense_DropsBudget ==
  /\ pc = "menu"
  /\ \E tok \in IdInputs :
       LET expense_id == IntParse(tok)
       IN /\ ~expense_id.err /\ ~expense_id.overflow
          /\ expenses' = DeleteById(expenses, expense_id.v)
          /\ budget' = <<>>
          /\ lastOp' = Op("delete_expense", TRUE, tok,
                          [invalid |-> FALSE,
                           deleted_count |-> Len(expenses) - Len(expenses')])
          /\ UNCHANGED <<seq, now, pc, openConns, assigned, lastSet>>

\* view_all_expenses runs first, with a connection of its own that it closes.
delete_expense ==
  /\ pc = "menu"
  /\ \E tok \in IdInputs :
       LET expense_id == IntParse(tok)
       IN IF expense_id.err
          THEN /\ lastOp' = Op("delete_expense", TRUE, tok,
                               [invalid |-> TRUE, deleted_count |-> 0])
               /\ UNCHANGED <<expenses, seq, budget, now, pc, openConns, assigned, lastSet>>
          ELSE IF expense_id.overflow
          THEN Raise("delete_expense", tok)
          ELSE /\ expenses' = DeleteById(expenses, expense_id.v)
               /\ lastOp' = Op("delete_expense", TRUE, tok,
                               [invalid |-> FALSE,
                                deleted_count |-> Len(expenses) - Len(expenses')])
               /\ UNCHANGED <<seq, budget, now, pc, openConns, assigned, lastSet>>

invalid_choice ==
  /\ pc = "menu"
  /\ \E choice \in MenuChoices \ {"0", "1", "2", "3", "4", "5", "6"} :
       lastOp' = Op("invalid_choice", TRUE, choice, None)
  /\ UNCHANGED <<expenses, seq, budget, now, pc, openConns, assigned, lastSet>>

exit_choice ==
  /\ pc = "menu"
  /\ pc' = "exited"
  /\ lastOp' = Op("exit", TRUE, "0", None)
  /\ UNCHANGED <<expenses, seq, budget, now, openConns, assigned, lastSet>>

\* The program is started again on the same database file: init_db finds both
\* relations; the connections of the ended process are gone.
main_menu ==
  /\ pc \in {"exited", "crashed"}
  /\ pc' = "menu"
  /\ openConns' = 0
  /\ lastOp' = Op("init_db", TRUE, None, None)
  /\ UNCHANGED <<expenses, seq, budget, now, assigned, lastSet>>

\* Time passes between two prompts.
Tick ==
  /\ now < Len(Calendar)
  /\ now' = now + 1
  /\ UNCHANGED <<expenses, seq, budget, pc, openConns, lastOp, assigned, lastSet>>

Next ==
  \/ add_expense
  \/ set_monthly_budget
  \/ view_all_expenses
  \/ view_month_summary
  \/ view_category_wise_summary
  \/ delete_expense
  \/ invalid_choice
  \/ exit_choice
  \/ main_menu
  \/ Tick

Spec == Init /\ [][Next]_vars

----------------------------------------------------------------------------
\* Properties

Range(f) == {f[i] : i \in DOMAIN f}

LiveIds == {r.id : r \in Range(expenses)}

\* The expenses whose stored date has K as its first 7 characters.
PrefixMonth(rows, K) == SelectSeq(rows, LAMBDA r : Prefix7(r.date) = K)

\* C1: the total the monthly summary shows for its month key K is the sum of
\* amount over exactly the expenses whose date has K as its first 7
\* characters, and 0 when there is none.
C1_TotalIsSumOverPrefix ==
  lastOp.op = "view_month_summary" =>
    lastOp.out.total = AddUp(PrefixMonth(expenses, lastOp.in))

\* C2: every stored expense has amount >= 0, every value input_float returns
\* is >= 0, and add_expense stores the value input_float returned.
C2_AmountsNonNegative ==
  /\ \A r \in Range(expenses) : r.amount >= 0
  /\ lastOp.op \in {"add_expense", "set_monthly_budget"} =>
       ~lastOp.in.amount.nan /\ lastOp.in.amount.v >= 0
  /\ lastOp.op = "add_expense" /\ lastOp.ok =>
       \E r \in Range(expenses) : r.id = lastOp.out /\ r.amount = lastOp.in.amount.v

\* C3: ids are unique among live records, every newly assigned id is greater
\* than all ids assigned before it, and no id is assigned twice, also after
\* the record holding the largest id was deleted.
C3_IdsNeverReused ==
  /\ \A i, j \in 1..Len(expenses) : i # j => expenses[i].id # expenses[j].id
  /\ \A i, j \in 1..Len(assigned) : i < j => assigned[i] < assigned[j]
  /\ LiveIds \subseteq Range(assigned)

\* An id was assigned after the record with the largest id so far was deleted.
C3_Witness ==
  /\ Len(assigned) >= 2
  /\ assigned[Len(assigned) - 1] \notin LiveIds
  /\ assigned[Len(assigned)] \in LiveIds
  /\ lastOp.op = "add_expense" /\ lastOp.ok

\* C4: a delete of an id that exists removes exactly that record and reports
\* count 1, and the id is gone; a delete of an id that does not exist reports
\* count 0, is not an error and leaves the expenses unchanged.
C4_DeleteByIdCounts ==
  [][\A tok \in IdInputs :
       (lastOp'.op = "delete_expense" /\ lastOp'.in = tok /\ now' = now
          /\ lastOp' # lastOp /\ ~IntParse(tok).err)
       => IF ~IntParse(tok).overflow /\ IntParse(tok).v \in LiveIds
          THEN /\ lastOp'.ok
               /\ lastOp'.out.deleted_count = 1
               /\ expenses' = SelectSeq(expenses, LAMBDA r : r.id # IntParse(tok).v)
               /\ \A L \in Listings(expenses') : \A i \in 1..Len(L) : L[i].id # IntParse(tok).v
          ELSE /\ lastOp'.ok
               /\ lastOp'.out.deleted_count = 0
               /\ expenses' = expenses]_vars

\* C5: the budget relation holds at most one record per month key, and the
\* amount stored for a key is the amount of the latest set-budget for it.
C5_OneBudgetPerMonth ==
  /\ \A i, j \in 1..Len(budget) : i # j => budget[i].month # budget[j].month
  /\ \A i \in 1..Len(budget) :
       budget[i].month \in DOMAIN lastSet /\ budget[i].amount = lastSet[budget[i].month]
  /\ \A k \in DOMAIN lastSet : \E i \in 1..Len(budget) : budget[i].month = k

\* A budget was set for a month that already had one, next to the budget of
\* another month, which keeps its own amount.
C5_Witness ==
  /\ lastOp.op = "set_monthly_budget" /\ lastOp.ok /\ lastOp.out.conflict
  /\ Len(budget) = 2
  /\ budget[2].month = lastOp.in.month /\ budget[2].amount = lastOp.in.amount.v
  /\ budget[1].amount # budget[2].amount

C7_AddAppendsOneRecord ==
  [][(lastOp'.op = "add_expense" /\ lastOp'.ok /\ now' = now /\ lastOp' # lastOp)
     => /\ \A L \in Listings(expenses), M \in Listings(expenses') : Len(M) = Len(L) + 1
        /\ Range(expenses) \subseteq Range(expenses')
        /\ \E r \in Range(expenses') \ Range(expenses) :
             /\ Range(expenses') = Range(expenses) \cup {r}
             /\ r.date = lastOp'.in.date
             /\ r.category = lastOp'.in.category
             /\ r.amount = lastOp'.in.amount.v
             /\ r.note = lastOp'.in.note]_vars

\* An add succeeded next to a record with the same date and category.
C7_Witness ==
  /\ lastOp.op = "add_expense" /\ lastOp.ok
  /\ \E r, q \in Range(expenses) :
       /\ r.id = lastOp.out /\ q.id # r.id
       /\ q.date = r.date /\ q.category = r.category

\* C8: the category summary for month key K maps each category with an
\* expense in K to the sum of that category's amounts in K, and has no entry
\* for any other category.
C8_CategorySummary ==
  lastOp.op = "view_category_wise_summary" =>
    LET inK == PrefixMonth(expenses, lastOp.in)
    IN /\ DOMAIN lastOp.out = {r.category : r \in Range(inK)}
       /\ \A c \in DOMAIN lastOp.out :
            lastOp.out[c] = AddUp(SelectSeq(inK, LAMBDA r : r.category = c))

\* C9: whenever no operation is in progress, no connection that an earlier
\* operation opened is still open.
C9_ConnectionsReleased == openConns = 0

\* C10: add and delete leave the budget relation unchanged, set-budget leaves
\* the expenses unchanged, and the views, an invalid choice and a delete given
\* a non-integer leave both unchanged.
C10_OneRelationPerOperation ==
  [][/\ lastOp'.op \in {"add_expense", "delete_expense"} => budget' = budget
     /\ lastOp'.op = "set_monthly_budget" => expenses' = expenses /\ seq' = seq
     /\ lastOp'.op \in {"view_all_expenses", "view_month_summary",
                        "view_category_wise_summary", "invalid_choice"}
          => expenses' = expenses /\ seq' = seq /\ budget' = budget
     /\ (lastOp'.op = "delete_expense" /\ lastOp'.ok /\ lastOp'.out.invalid)
          => expenses' = expenses /\ seq' = seq /\ budget' = budget]_vars

\* A record was deleted while a budget was set, and the budget is still there.
C10_Witness ==
  /\ lastOp.op = "delete_expense" /\ lastOp.ok
  /\ ~lastOp.out.invalid /\ lastOp.out.deleted_count = 1
  /\ budget # <<>> /\ expenses # <<>>

====
